---- MODULE Spec2Model ----
(***************************************************************************)
(* Coupon validation-and-accounting pipeline (ValidationService,          *)
(* CouponService, the coupons / coupon_usage tables) and the asynchronous  *)
(* validation-log batcher (ValidationLogQueue).                            *)
(*                                                                         *)
(* Every await of the TypeScript code is a scheduling point: one action    *)
(* models the code that runs from one await to the next.  Amounts are in   *)
(* hundredths of a currency unit, dates are small integers, SQL NULL and   *)
(* JavaScript undefined are the falsy values 0 / "" / NoDate.              *)
(***************************************************************************)
EXTENDS Integers, Sequences, FiniteSets, TLC

\* ------------------------------------------------------------------ bounds
NumAttempts == 2
MaxTotalUses == 2
MaxTime == 3
MaxLogs == 4
\* the source sets BATCH_SIZE = 100; the threshold is scaled down so that a
\* size-triggered flush happens within MaxLogs entries
BATCH_SIZE == 3
\* the amounts (in hundredths) and discount values tried on calculateDiscount
MaxOrderValue == 6
MaxDiscountValue == 100
MaxDiscountAmount == 3

\* --------------------------------------------------------------- constants
NoDate == 0 - 1
NoOrder == ""
NoUser == ""

Attempts == 1..NumAttempts
Users == {"u1", "u2"}
Orders == {NoOrder, "o1", "o2"}
OrderValues == {4000, 10000}
Codes == {"USER-1", "PROMO-1"}
RequestCodes == Codes \cup {"NOPE"}

ACTIVE == "active"
EXPIRED == "expired"
EXHAUSTED == "exhausted"
INACTIVE == "inactive"
CouponStatus == {ACTIVE, EXPIRED, EXHAUSTED, INACTIVE}

USER_SPECIFIC == "user_specific"
TIME_SPECIFIC == "time_specific"

Range(s) == {s[i] : i \in 1..Len(s)}

\* ------------------------------------------------------------------- state
VARIABLES
  coupons,       \* table coupons: code -> row
  coupon_usage,  \* table coupon_usage: sequence of rows in insertion order
  now,           \* the clock read by new Date()
  pc,            \* per attempt: the await at which validateCoupon is suspended
  dto,           \* per attempt: the ValidateCouponDto
  coupon,        \* per attempt: the Coupon object fetched by getCouponByCode
  result,        \* per attempt: the local variable result
  txOutcome,     \* per attempt: how db.transaction ended, "none" before
  storeFailed,   \* the attempts one of whose store operations failed
  queue,         \* ValidationLogQueue.queue
  flushInterval, \* ValidationLogQueue.flushInterval is set (timer armed)
  isProcessing,  \* ValidationLogQueue.isProcessing
  flights,       \* batches handed to flushCallback whose write is pending
  written,       \* batches whose write succeeded, in order
  attempted,     \* ids of the entries that were part of a flushCallback call
  nextLog,       \* number of entries enqueued so far
  shutdownPc,    \* position of shutdown(): "none", "awaiting", "returned"
  atShutdown     \* ids of the entries enqueued before shutdown() was called

dbVars == <<coupons, coupon_usage>>
attemptVars == <<pc, dto, coupon, result, txOutcome, storeFailed>>
queueVars == <<queue, flushInterval, isProcessing, flights, written,
               attempted, nextLog, shutdownPc, atShutdown>>
vars == <<coupons, coupon_usage, now, pc, dto, coupon, result, txOutcome,
          storeFailed, queue, flushInterval, isProcessing, flights, written,
          attempted, nextLog, shutdownPc, atShutdown>>

\* ---------------------------------------------------------------- database
\* rows inserted by generateUserSpecificCoupon / generateTimeSpecificCoupon:
\* status ACTIVE, current_total_uses at its column default 0
UserSpecificRow ==
  [code |-> "USER-1", type |-> USER_SPECIFIC, discount_type |-> "fixed",
   discount_value |-> 3000, max_discount_amount |-> 0,
   min_order_value |-> 5000, user_id |-> "u1", status |-> ACTIVE,
   valid_from |-> NoDate, valid_until |-> NoDate,
   max_uses_per_user |-> 0, max_total_uses |-> 0, current_total_uses |-> 0]

TimeSpecificRow(total) ==
  [code |-> "PROMO-1", type |-> TIME_SPECIFIC, discount_type |-> "percentage",
   discount_value |-> 20, max_discount_amount |-> 1500,
   min_order_value |-> 5000, user_id |-> NoUser, status |-> ACTIVE,
   valid_from |-> 1, valid_until |-> 2,
   max_uses_per_user |-> 1, max_total_uses |-> total,
   current_total_uses |-> 0]

\* mutant: the migration drops the UNIQUE constraint and creates no index
ViolatesOrderIdUniqueDropped(usage, orderId) == FALSE

\* the unique index on coupon_usage(order_id) WHERE order_id IS NOT NULL
ViolatesOrderIdUnique(usage, orderId) ==
  /\ orderId # NoOrder
  /\ \E i \in 1..Len(usage) : usage[i].order_id = orderId

\* the columns named by the SELECT of getCouponByCode
getCouponByCodeColumns ==
  {"id", "code", "type", "discount_type", "discount_value",
   "max_discount_amount", "min_order_value", "description", "user_id",
   "status", "created_by", "valid_from", "valid_until", "max_total_uses",
   "current_total_uses", "created_at", "updated_at"}

\* mapRowToCoupon of a row that carries the columns cols; a column that was
\* not selected reads as undefined
mapRowToCoupon(row, cols) ==
  [found |-> TRUE,
   id |-> row.code,
   type |-> row.type,
   discountType |-> row.discount_type,
   discountValue |-> row.discount_value,
   maxDiscountAmount |-> row.max_discount_amount,
   minOrderValue |-> row.min_order_value,
   status |-> row.status,
   userId |-> row.user_id,
   validFrom |-> row.valid_from,
   validUntil |-> row.valid_until,
   maxUsesPerUser |->
     IF "max_uses_per_user" \in cols THEN row.max_uses_per_user ELSE 0,
   maxTotalUses |->
     IF "max_total_uses" \in cols THEN row.max_total_uses ELSE 0,
   currentTotalUses |-> row.current_total_uses]

NoCoupon ==
  [found |-> FALSE, id |-> "", type |-> "", discountType |-> "",
   discountValue |-> 0, maxDiscountAmount |-> 0, minOrderValue |-> 0,
   status |-> "", userId |-> NoUser, validFrom |-> NoDate,
   validUntil |-> NoDate, maxUsesPerUser |-> 0, maxTotalUses |-> 0,
   currentTotalUses |-> 0]

getCouponByCode(table, code) ==
  IF code \in DOMAIN table
  THEN mapRowToCoupon(table[code], getCouponByCodeColumns)
  ELSE NoCoupon

\* SELECT COUNT(*) FROM coupon_usage WHERE coupon_id = $1 AND user_id = $2
getUserCouponUsageCount(usage, couponId, userId) ==
  Cardinality({i \in 1..Len(usage) :
                 usage[i].coupon_id = couponId /\ usage[i].user_id = userId})

\* SELECT COUNT(*) FROM coupon_usage WHERE order_id = $1, count > 0
isOrderAlreadyUsed(usage, orderId) ==
  Cardinality({i \in 1..Len(usage) : usage[i].order_id = orderId}) > 0

\* UPDATE coupons SET status = $1 WHERE id = $2
updateCouponStatus(table, id, status) ==
  [table EXCEPT ![id].status = status]

\* ----------------------------------------------------------------- helpers
Min(a, b) == IF a <= b THEN a ELSE b

\* Math.round(x * 100) / 100 of the non-negative amount num/den hundredths
RoundHalfUp(num, den) == (2 * num + den) \div (2 * den)

\* mutant: the percentage branch does not apply maxDiscountAmount
calculateDiscountUncapped(orderValue, discountType, discountValue, cap) ==
  IF discountType = "percentage"
  THEN RoundHalfUp(orderValue * discountValue, 100)
  ELSE IF discountType = "fixed"
  THEN Min(discountValue, orderValue)
  ELSE 0

\* mutant: the fixed branch returns discountValue without Math.min
calculateDiscountFixedFull(orderValue, discountType, discountValue, cap) ==
  IF discountType = "percentage"
  THEN LET raw == RoundHalfUp(orderValue * discountValue, 100)
       IN  IF cap # 0 /\ orderValue * discountValue > cap * 100
           THEN cap
           ELSE raw
  ELSE IF discountType = "fixed"
  THEN discountValue
  ELSE 0

\* calculateDiscount on amounts in hundredths: the percentage of the order
\* value, replaced by maxDiscountAmount when larger, or the smaller of the
\* fixed value and the order value; rounded to two decimals
calculateDiscount(orderValue, discountType, discountValue, maxDiscountAmount) ==
  IF discountType = "percentage"
  THEN LET raw == RoundHalfUp(orderValue * discountValue, 100)
       IN  IF maxDiscountAmount # 0
              /\ orderValue * discountValue > maxDiscountAmount * 100
           THEN maxDiscountAmount
           ELSE raw
  ELSE IF discountType = "fixed"
  THEN Min(discountValue, orderValue)
  ELSE 0

isWithinValidDateRange(validFrom, validUntil, t) ==
  IF validFrom = NoDate \/ validUntil = NoDate
  THEN FALSE
  ELSE t >= validFrom /\ t <= validUntil

\* ------------------------------------------------------------------ results
Denied(reason) ==
  [valid |-> FALSE, reason |-> reason, discountAmount |-> 0, finalAmount |-> 0]
Permitted(discountAmount, finalAmount) ==
  [valid |-> TRUE, reason |-> "", discountAmount |-> discountAmount,
   finalAmount |-> finalAmount]

UnknownError == "Unknown error"
NotFound == "Coupon not found"
NotActive(status) == "Coupon is " \o status
MinOrderNotMet == "Minimum order value not met"
DuplicateOrder == "This order has already used a coupon"
NotAssigned == "This coupon is not assigned to you"
AlreadyUsed == "You have already used this coupon"
ExpiredOrNotYetValid == "Coupon has expired or is not yet valid"
UsageLimitReached == "Coupon usage limit reached"
UserLimitReached == "You have reached the maximum usage limit for this coupon"
ValidationFailed == "Validation failed"

NoDto == [code |-> "", userId |-> NoUser, orderId |-> NoOrder, orderValue |-> 0]

\* ------------------------------------------------------ ValidationLogQueue
\* mutant: logsToFlush is a copy (slice) and the buffer keeps its entries
flushSliced(q, by) ==
  IF isProcessing \/ Len(q) = 0
  THEN /\ queue' = q
       /\ UNCHANGED <<isProcessing, flights, attempted>>
  ELSE /\ isProcessing' = TRUE
       /\ queue' = q
       /\ flights' = Append(flights, [logs |-> q, by |-> by])
       /\ attempted' = attempted \cup {q[i].id : i \in 1..Len(q)}

\* mutant: flush() does not test isProcessing
flushUnguarded(q, by) ==
  IF Len(q) = 0
  THEN /\ queue' = q
       /\ UNCHANGED <<isProcessing, flights, attempted>>
  ELSE /\ isProcessing' = TRUE
       /\ queue' = <<>>
       /\ flights' = Append(flights, [logs |-> q, by |-> by])
       /\ attempted' = attempted \cup {q[i].id : i \in 1..Len(q)}

\* the part of flush() that runs before its first suspension, on buffer q;
\* by names the caller ("add", "timer" or "shutdown")
flush(q, by) ==
  IF isProcessing \/ Len(q) = 0
  THEN /\ queue' = q
       /\ UNCHANGED <<isProcessing, flights, attempted>>
  ELSE /\ isProcessing' = TRUE
       /\ queue' = <<>>
       /\ flights' = Append(flights, [logs |-> q, by |-> by])
       /\ attempted' = attempted \cup {q[i].id : i \in 1..Len(q)}

\* flush() called on buffer q goes on to call flushCallback
flushStarts(q) == ~(isProcessing \/ Len(q) = 0)

\* mutant: add() flushes when the length is exactly BATCH_SIZE
addExactThreshold(log) ==
  LET q == Append(queue, log)
  IN  /\ nextLog' = nextLog + 1
      /\ IF Len(q) = BATCH_SIZE
         THEN flush(q, "add")
         ELSE /\ queue' = q
              /\ UNCHANGED <<isProcessing, flights, attempted>>

\* mutant: add() puts the entry at the front of the buffer (unshift)
addUnshifts(log) ==
  LET q == <<log>> \o queue
  IN  /\ nextLog' = nextLog + 1
      /\ IF Len(q) >= BATCH_SIZE
         THEN flush(q, "add")
         ELSE /\ queue' = q
              /\ UNCHANGED <<isProcessing, flights, attempted>>

\* add(log): push, then flush() when the buffer has reached BATCH_SIZE
add(log) ==
  LET q == Append(queue, log)
  IN  /\ nextLog' = nextLog + 1
      /\ IF Len(q) >= BATCH_SIZE
         THEN flush(q, "add")
         ELSE /\ queue' = q
              /\ UNCHANGED <<isProcessing, flights, attempted>>

\* ValidationLogService.logValidationAttempt called by a request handler
LogValidationAttempt(valid) ==
  /\ nextLog < MaxLogs
  /\ add([id |-> nextLog + 1, isValid |-> valid])
  /\ UNCHANGED <<flushInterval, written, shutdownPc, atShutdown>>
  /\ UNCHANGED <<coupons, coupon_usage, now, pc, dto, coupon, result, txOutcome,
               storeFailed>>

\* mutant: the timer callback flushes a full buffer only
TimerFlushWhenFull ==
  /\ flushInterval
  /\ Len(queue) >= BATCH_SIZE
  /\ flush(queue, "timer")
  /\ UNCHANGED <<flushInterval, written, nextLog, shutdownPc, atShutdown>>
  /\ UNCHANGED <<coupons, coupon_usage, now, pc, dto, coupon, result, txOutcome,
               storeFailed>>

\* the setInterval callback of startAutoFlush
TimerFlush ==
  /\ flushInterval
  /\ Len(queue) > 0
  /\ flush(queue, "timer")
  /\ UNCHANGED <<flushInterval, written, nextLog, shutdownPc, atShutdown>>
  /\ UNCHANGED <<coupons, coupon_usage, now, pc, dto, coupon, result, txOutcome,
               storeFailed>>

RemoveAt(s, i) == SubSeq(s, 1, i - 1) \o SubSeq(s, i + 1, Len(s))

\* flushCallback resolves: flush() resumes after the await, runs finally
WriteOk(i) ==
  /\ i \in 1..Len(flights)
  /\ written' = Append(written, flights[i].logs)
  /\ flights' = RemoveAt(flights, i)
  /\ isProcessing' = FALSE
  /\ shutdownPc' = IF flights[i].by = "shutdown" THEN "returned" ELSE shutdownPc
  /\ UNCHANGED <<queue, flushInterval, attempted, nextLog, atShutdown>>
  /\ UNCHANGED <<coupons, coupon_usage, now, pc, dto, coupon, result, txOutcome,
               storeFailed>>

\* mutant: the catch block pushes the failed batch at the end of the buffer
WriteFailAppended(i) ==
  /\ i \in 1..Len(flights)
  /\ queue' = queue \o flights[i].logs
  /\ flights' = RemoveAt(flights, i)
  /\ isProcessing' = FALSE
  /\ shutdownPc' = IF flights[i].by = "shutdown" THEN "returned" ELSE shutdownPc
  /\ UNCHANGED <<flushInterval, written, attempted, nextLog, atShutdown>>
  /\ UNCHANGED <<coupons, coupon_usage, now, pc, dto, coupon, result, txOutcome,
               storeFailed>>

\* mutant: isProcessing is cleared at the end of the try block, not in finally
WriteFailKeepsFlag(i) ==
  /\ i \in 1..Len(flights)
  /\ queue' = flights[i].logs \o queue
  /\ flights' = RemoveAt(flights, i)
  /\ shutdownPc' = IF flights[i].by = "shutdown" THEN "returned" ELSE shutdownPc
  /\ UNCHANGED <<isProcessing, flushInterval, written, attempted, nextLog,
                 atShutdown>>
  /\ UNCHANGED <<coupons, coupon_usage, now, pc, dto, coupon, result, txOutcome,
               storeFailed>>

\* flushCallback rejects: flush() runs catch (re-queue at the front), finally
WriteFail(i) ==
  /\ i \in 1..Len(flights)
  /\ queue' = flights[i].logs \o queue
  /\ flights' = RemoveAt(flights, i)
  /\ isProcessing' = FALSE
  /\ shutdownPc' = IF flights[i].by = "shutdown" THEN "returned" ELSE shutdownPc
  /\ UNCHANGED <<flushInterval, written, attempted, nextLog, atShutdown>>
  /\ UNCHANGED <<coupons, coupon_usage, now, pc, dto, coupon, result, txOutcome,
               storeFailed>>

\* shutdown(): clearInterval, then await this.flush()
Shutdown ==
  /\ shutdownPc = "none"
  /\ flushInterval' = FALSE
  /\ atShutdown' = 1..nextLog
  /\ flush(queue, "shutdown")
  /\ shutdownPc' = IF flushStarts(queue) THEN "awaiting" ELSE "returned"
  /\ UNCHANGED <<written, nextLog>>
  /\ UNCHANGED <<coupons, coupon_usage, now, pc, dto, coupon, result, txOutcome,
               storeFailed>>

\* ------------------------------------------------------- ValidationService
\* mutant: logValidationAttempt is awaited and add() awaits the flush it
\* starts without a catch, so the call fails with the flush
FinishAwaitsFlush(a, res, outcome) ==
  /\ pc' = [pc EXCEPT ![a] =
              IF Len(queue) + 1 >= BATCH_SIZE /\ ~isProcessing
              THEN "thrown" ELSE outcome]
  /\ result' = [result EXCEPT ![a] = res]
  /\ coupon' = [coupon EXCEPT ![a] = NoCoupon]
  /\ add([id |-> nextLog + 1, isValid |-> res.valid])

\* validateCoupon leaves through return (outcome "returned") or through the
\* catch block's throw (outcome "thrown"); the finally block enqueues the
\* log; the local variable coupon goes out of scope
Finish(a, res, outcome) ==
  /\ pc' = [pc EXCEPT ![a] = outcome]
  /\ result' = [result EXCEPT ![a] = res]
  /\ coupon' = [coupon EXCEPT ![a] = NoCoupon]
  /\ add([id |-> nextLog + 1, isValid |-> res.valid])

\* mutant: the log call sits at the end of the try block, not in finally
ThrowUnlogged(a) ==
  /\ pc' = [pc EXCEPT ![a] = "thrown"]
  /\ result' = [result EXCEPT ![a] = Denied(ValidationFailed)]
  /\ coupon' = [coupon EXCEPT ![a] = NoCoupon]
  /\ UNCHANGED <<queue, isProcessing, flights, attempted, nextLog>>

\* mutant: the catch block returns its result instead of throwing
ThrowReturned(a) == Finish(a, Denied(ValidationFailed), "returned")

\* catch: result = { valid: false, reason: 'Validation failed' }; throw
Throw(a) == Finish(a, Denied(ValidationFailed), "thrown")

\* validateCoupon suspends at the await named label, holding coupon c
Goto(a, label, c) ==
  /\ pc' = [pc EXCEPT ![a] = label]
  /\ coupon' = [coupon EXCEPT ![a] = c]
  /\ UNCHANGED <<result, queue, isProcessing, flights, attempted, nextLog>>

\* mutant: validateUserSpecificCoupon does not compare coupon.userId
validateUserSpecificCouponUnbound(a, c, d) ==
  Goto(a, "getUserCouponUsageCount", c)

\* validateUserSpecificCoupon up to its first await
validateUserSpecificCoupon(a, c, d) ==
  IF c.userId # d.userId
  THEN Finish(a, Denied(NotAssigned), "returned")
  ELSE Goto(a, "getUserCouponUsageCount", c)

\* mutant: an expired coupon is denied without the status update
validateTimeSpecificCouponNoUpdate(a, c, d) ==
  IF ~isWithinValidDateRange(c.validFrom, c.validUntil, now)
  THEN Finish(a, Denied(ExpiredOrNotYetValid), "returned")
  ELSE IF c.maxTotalUses # 0 /\ c.currentTotalUses >= c.maxTotalUses
  THEN Goto(a, "updateExhausted", c)
  ELSE IF c.maxUsesPerUser # 0
  THEN Goto(a, "getUserCouponUsageCount", c)
  ELSE Goto(a, "transaction", c)

\* mutant: the status update does not test new Date() > validUntil
validateTimeSpecificCouponExpiresOutside(a, c, d) ==
  IF ~isWithinValidDateRange(c.validFrom, c.validUntil, now)
  THEN Goto(a, "updateExpired", c)
  ELSE IF c.maxTotalUses # 0 /\ c.currentTotalUses >= c.maxTotalUses
  THEN Goto(a, "updateExhausted", c)
  ELSE IF c.maxUsesPerUser # 0
  THEN Goto(a, "getUserCouponUsageCount", c)
  ELSE Goto(a, "transaction", c)

\* mutant: the total-usage check compares with > instead of >=
validateTimeSpecificCouponStrictCap(a, c, d) ==
  IF ~isWithinValidDateRange(c.validFrom, c.validUntil, now)
  THEN IF c.validUntil # NoDate /\ now > c.validUntil
       THEN Goto(a, "updateExpired", c)
       ELSE Finish(a, Denied(ExpiredOrNotYetValid), "returned")
  ELSE IF c.maxTotalUses # 0 /\ c.currentTotalUses > c.maxTotalUses
  THEN Goto(a, "updateExhausted", c)
  ELSE IF c.maxUsesPerUser # 0
  THEN Goto(a, "getUserCouponUsageCount", c)
  ELSE Goto(a, "transaction", c)

\* validateTimeSpecificCoupon up to its first await
validateTimeSpecificCoupon(a, c, d) ==
  IF ~isWithinValidDateRange(c.validFrom, c.validUntil, now)
  THEN IF c.validUntil # NoDate /\ now > c.validUntil
       THEN Goto(a, "updateExpired", c)
       ELSE Finish(a, Denied(ExpiredOrNotYetValid), "returned")
  ELSE IF c.maxTotalUses # 0 /\ c.currentTotalUses >= c.maxTotalUses
  THEN Goto(a, "updateExhausted", c)
  ELSE IF c.maxUsesPerUser # 0
  THEN Goto(a, "getUserCouponUsageCount", c)
  ELSE Goto(a, "transaction", c)

\* step 5 of validateCoupon: type-specific validation
TypeSpecific(a, c, d) ==
  IF c.type = USER_SPECIFIC
  THEN validateUserSpecificCoupon(a, c, d)
  ELSE validateTimeSpecificCoupon(a, c, d)

\* mutant: the minimum order value is tested before the status
GetCouponByCodeMinimumFirst(a, d, ok) ==
  /\ pc[a] = "idle"
  /\ \A b \in Attempts : b < a => pc[b] # "idle"
  /\ d.orderId = "o2" => \E b \in Attempts : b < a /\ dto[b].orderId = "o1"
  /\ dto' = [dto EXCEPT ![a] = d]
  /\ IF ~ok
     THEN Throw(a)
     ELSE LET c == getCouponByCode(coupons, d.code)
          IN  IF ~c.found
              THEN Finish(a, Denied(NotFound), "returned")
              ELSE IF d.orderValue < c.minOrderValue
              THEN Finish(a, Denied(MinOrderNotMet), "returned")
              ELSE IF c.status # ACTIVE
              THEN Finish(a, Denied(NotActive(c.status)), "returned")
              ELSE IF d.orderId # NoOrder
              THEN Goto(a, "isOrderAlreadyUsed", c)
              ELSE TypeSpecific(a, c, d)
  /\ storeFailed' = IF ok THEN storeFailed ELSE storeFailed \cup {a}
  /\ UNCHANGED <<coupons, coupon_usage, now, txOutcome>>
  /\ UNCHANGED <<flushInterval, written, shutdownPc, atShutdown>>

\* a request arrives: validateCoupon(d) is called and runs until
\* getCouponByCode answers; steps 1 to 3, then rule 4 or step 5.
\* Attempts are numbered in order of arrival, order ids in order of first
\* use.
GetCouponByCode(a, d, ok) ==
  /\ pc[a] = "idle"
  /\ \A b \in Attempts : b < a => pc[b] # "idle"
  /\ d.orderId = "o2" => \E b \in Attempts : b < a /\ dto[b].orderId = "o1"
  /\ dto' = [dto EXCEPT ![a] = d]
  /\ IF ~ok
     THEN Throw(a)
     ELSE LET c == getCouponByCode(coupons, d.code)
          IN  IF ~c.found
              THEN Finish(a, Denied(NotFound), "returned")
              ELSE IF c.status # ACTIVE
              THEN Finish(a, Denied(NotActive(c.status)), "returned")
              ELSE IF d.orderValue < c.minOrderValue
              THEN Finish(a, Denied(MinOrderNotMet), "returned")
              ELSE IF d.orderId # NoOrder
              THEN Goto(a, "isOrderAlreadyUsed", c)
              ELSE TypeSpecific(a, c, d)
  /\ storeFailed' = IF ok THEN storeFailed ELSE storeFailed \cup {a}
  /\ UNCHANGED <<coupons, coupon_usage, now, txOutcome>>
  /\ UNCHANGED <<flushInterval, written, shutdownPc, atShutdown>>

\* mutant: the query also filters on coupon_id
IsOrderAlreadyUsedPerCoupon(a, ok) ==
  /\ pc[a] = "isOrderAlreadyUsed"
  /\ IF ~ok
     THEN Throw(a)
     ELSE IF \E i \in 1..Len(coupon_usage) :
               /\ coupon_usage[i].coupon_id = coupon[a].id
               /\ coupon_usage[i].order_id = dto[a].orderId
     THEN Finish(a, Denied(DuplicateOrder), "returned")
     ELSE TypeSpecific(a, coupon[a], dto[a])
  /\ storeFailed' = IF ok THEN storeFailed ELSE storeFailed \cup {a}
  /\ UNCHANGED <<coupons, coupon_usage, now, dto, txOutcome>>
  /\ UNCHANGED <<flushInterval, written, shutdownPc, atShutdown>>

\* rule 4: isOrderAlreadyUsed answers, then step 5
IsOrderAlreadyUsed(a, ok) ==
  /\ pc[a] = "isOrderAlreadyUsed"
  /\ IF ~ok
     THEN Throw(a)
     ELSE IF isOrderAlreadyUsed(coupon_usage, dto[a].orderId)
     THEN Finish(a, Denied(DuplicateOrder), "returned")
     ELSE TypeSpecific(a, coupon[a], dto[a])
  /\ storeFailed' = IF ok THEN storeFailed ELSE storeFailed \cup {a}
  /\ UNCHANGED <<coupons, coupon_usage, now, dto, txOutcome>>
  /\ UNCHANGED <<flushInterval, written, shutdownPc, atShutdown>>

\* mutant: the denial path also calls incrementUsageCount
UpdateCouponStatusIncrements(a, ok) ==
  /\ pc[a] \in {"updateExpired", "updateExhausted"}
  /\ IF ~ok
     THEN Throw(a) /\ UNCHANGED coupons
     ELSE LET counted ==
                [coupons EXCEPT ![coupon[a].id].current_total_uses = @ + 1]
          IN  IF pc[a] = "updateExpired"
              THEN /\ coupons' = updateCouponStatus(counted, coupon[a].id, EXPIRED)
                   /\ Finish(a, Denied(ExpiredOrNotYetValid), "returned")
              ELSE /\ coupons' = updateCouponStatus(counted, coupon[a].id, EXHAUSTED)
                   /\ Finish(a, Denied(UsageLimitReached), "returned")
  /\ storeFailed' = IF ok THEN storeFailed ELSE storeFailed \cup {a}
  /\ UNCHANGED <<coupon_usage, now, dto, txOutcome>>
  /\ UNCHANGED <<flushInterval, written, shutdownPc, atShutdown>>

\* updateCouponStatus answers inside validateTimeSpecificCoupon
UpdateCouponStatus(a, ok) ==
  /\ pc[a] \in {"updateExpired", "updateExhausted"}
  /\ IF ~ok
     THEN Throw(a) /\ UNCHANGED coupons
     ELSE IF pc[a] = "updateExpired"
     THEN /\ coupons' = updateCouponStatus(coupons, coupon[a].id, EXPIRED)
          /\ Finish(a, Denied(ExpiredOrNotYetValid), "returned")
     ELSE /\ coupons' = updateCouponStatus(coupons, coupon[a].id, EXHAUSTED)
          /\ Finish(a, Denied(UsageLimitReached), "returned")
  /\ storeFailed' = IF ok THEN storeFailed ELSE storeFailed \cup {a}
  /\ UNCHANGED <<coupon_usage, now, dto, txOutcome>>
  /\ UNCHANGED <<flushInterval, written, shutdownPc, atShutdown>>

\* getUserCouponUsageCount answers inside the type-specific validation
GetUserCouponUsageCount(a, ok) ==
  /\ pc[a] = "getUserCouponUsageCount"
  /\ IF ~ok
     THEN Throw(a)
     ELSE LET c == coupon[a]
              n == getUserCouponUsageCount(coupon_usage, c.id, dto[a].userId)
          IN  IF c.type = USER_SPECIFIC
              THEN IF n > 0
                   THEN Finish(a, Denied(AlreadyUsed), "returned")
                   ELSE Goto(a, "transaction", c)
              ELSE IF n >= c.maxUsesPerUser
                   THEN Finish(a, Denied(UserLimitReached), "returned")
                   ELSE Goto(a, "transaction", c)
  /\ storeFailed' = IF ok THEN storeFailed ELSE storeFailed \cup {a}
  /\ UNCHANGED <<coupons, coupon_usage, now, dto, txOutcome>>
  /\ UNCHANGED <<flushInterval, written, shutdownPc, atShutdown>>

\* mutant: the callback omits the UPDATE that increments current_total_uses
RecordUsageNoIncrement(table, usage, c, d, discountAmount) ==
  [failed |-> ViolatesOrderIdUnique(usage, d.orderId),
   coupons |->
     IF c.maxTotalUses # 0 /\ c.currentTotalUses + 1 >= c.maxTotalUses
     THEN updateCouponStatus(table, c.id, EXHAUSTED)
     ELSE table,
   coupon_usage |->
     Append(usage, [coupon_id |-> c.id, user_id |-> d.userId,
                    order_id |-> d.orderId, order_value |-> d.orderValue,
                    discount_applied |-> discountAmount])]

\* mutant: the callback writes the status on both branches of the cap test
RecordUsageReactivates(table, usage, c, d, discountAmount) ==
  LET incremented ==
        [table EXCEPT ![c.id].current_total_uses = @ + 1]
  IN  [failed |-> ViolatesOrderIdUnique(usage, d.orderId),
       coupons |->
         IF c.maxTotalUses # 0 /\ c.currentTotalUses + 1 >= c.maxTotalUses
         THEN updateCouponStatus(incremented, c.id, EXHAUSTED)
         ELSE updateCouponStatus(incremented, c.id, ACTIVE),
       coupon_usage |->
         Append(usage, [coupon_id |-> c.id, user_id |-> d.userId,
                        order_id |-> d.orderId, order_value |-> d.orderValue,
                        discount_applied |-> discountAmount])]

\* mutant: the callback tests the cap with the counter two below it
RecordUsageExhaustsEarly(table, usage, c, d, discountAmount) ==
  LET incremented ==
        [table EXCEPT ![c.id].current_total_uses = @ + 1]
  IN  [failed |-> ViolatesOrderIdUnique(usage, d.orderId),
       coupons |->
         IF c.maxTotalUses # 0 /\ c.currentTotalUses + 2 >= c.maxTotalUses
         THEN updateCouponStatus(incremented, c.id, EXHAUSTED)
         ELSE incremented,
       coupon_usage |->
         Append(usage, [coupon_id |-> c.id, user_id |-> d.userId,
                        order_id |-> d.orderId, order_value |-> d.orderValue,
                        discount_applied |-> discountAmount])]

\* the statements of the db.transaction callback, applied to the tables;
\* failed: the INSERT violates the unique index
RecordUsage(table, usage, c, d, discountAmount) ==
  LET inserted ==
        Append(usage, [coupon_id |-> c.id, user_id |-> d.userId,
                       order_id |-> d.orderId, order_value |-> d.orderValue,
                       discount_applied |-> discountAmount])
      incremented ==
        [table EXCEPT ![c.id].current_total_uses = @ + 1]
      exhausted ==
        IF c.maxTotalUses # 0 /\ c.currentTotalUses + 1 >= c.maxTotalUses
        THEN updateCouponStatus(incremented, c.id, EXHAUSTED)
        ELSE incremented
  IN  [failed |-> ViolatesOrderIdUnique(usage, d.orderId),
       coupons |-> exhausted, coupon_usage |-> inserted]

\* db.transaction: BEGIN, the callback, COMMIT; ROLLBACK and rethrow when a
\* statement fails (failed) or the store fails (~ok)
transaction(before, after, ok) ==
  IF after.failed \/ ~ok
  THEN [failed |-> TRUE, coupons |-> before.coupons,
        coupon_usage |-> before.coupon_usage,
        outcome |-> IF after.failed THEN "conflict" ELSE "error"]
  ELSE [failed |-> FALSE, coupons |-> after.coupons,
        coupon_usage |-> after.coupon_usage, outcome |-> "committed"]

\* mutant: the rejection of db.transaction is swallowed and the permit built
AfterTransactionSwallowed(a, tx, discountAmount, finalAmount) ==
  Finish(a, Permitted(discountAmount, finalAmount), "returned")

\* mutant: a statement after the resolved db.transaction throws
AfterTransactionThrows(a, tx, discountAmount, finalAmount) == Throw(a)

\* what validateCoupon does with the outcome of db.transaction
AfterTransaction(a, tx, discountAmount, finalAmount) ==
  IF tx.failed
  THEN Throw(a)
  ELSE Finish(a, Permitted(discountAmount, finalAmount), "returned")

\* step 6: calculateDiscount, db.transaction, result
Transaction(a, ok) ==
  /\ pc[a] = "transaction"
  /\ LET c == coupon[a]
         d == dto[a]
         discountAmount == calculateDiscount(d.orderValue, c.discountType,
                             c.discountValue, c.maxDiscountAmount)
         finalAmount == d.orderValue - discountAmount
         before == [failed |-> FALSE, coupons |-> coupons,
                    coupon_usage |-> coupon_usage]
         tx == transaction(before,
                 RecordUsage(coupons, coupon_usage, c, d, discountAmount), ok)
     IN  /\ coupons' = tx.coupons
         /\ coupon_usage' = tx.coupon_usage
         /\ txOutcome' = [txOutcome EXCEPT ![a] = tx.outcome]
         /\ AfterTransaction(a, tx, discountAmount, finalAmount)
         /\ storeFailed' = IF tx.outcome = "error"
                           THEN storeFailed \cup {a} ELSE storeFailed
  /\ UNCHANGED <<now, dto>>
  /\ UNCHANGED <<flushInterval, written, shutdownPc, atShutdown>>

\* time passes
Tick ==
  /\ now < MaxTime
  /\ now' = now + 1
  /\ UNCHANGED <<coupons, coupon_usage, pc, dto, coupon, result, txOutcome,
               storeFailed>>
  /\ UNCHANGED queueVars

\* ------------------------------------------------------------ specification
\* the requests tried: every combination for the issued codes, except that
\* an order below the minimum is tried for one user without order id only,
\* and one request for a code that was never issued
Dtos ==
  {d \in [code : RequestCodes, userId : Users, orderId : Orders,
          orderValue : OrderValues] :
     /\ d.code \notin Codes =>
          d.userId = "u1" /\ d.orderId = NoOrder /\ d.orderValue = 10000
     /\ d.orderValue < 5000 => d.userId = "u1" /\ d.orderId = NoOrder}

\* the issued coupons; the time_specific one with any max_total_uses, and
\* either active or set inactive in the table (no attempt sets inactive)
Init ==
  /\ \E total \in 0..MaxTotalUses, status \in {ACTIVE, INACTIVE} :
       /\ status = INACTIVE => total = 0
       /\ coupons = [code \in Codes |->
                      IF code = "USER-1" THEN UserSpecificRow
                      ELSE [TimeSpecificRow(total) EXCEPT !.status = status]]
  /\ coupon_usage = <<>>
  /\ now = 0
  /\ pc = [a \in Attempts |-> "idle"]
  /\ dto = [a \in Attempts |-> NoDto]
  /\ coupon = [a \in Attempts |-> NoCoupon]
  /\ result = [a \in Attempts |-> Denied(UnknownError)]
  /\ txOutcome = [a \in Attempts |-> "none"]
  /\ storeFailed = {}
  /\ queue = <<>>
  /\ flushInterval = TRUE
  /\ isProcessing = FALSE
  /\ flights = <<>>
  /\ written = <<>>
  /\ attempted = {}
  /\ nextLog = 0
  /\ shutdownPc = "none"
  /\ atShutdown = {}

Next ==
  \/ \E a \in Attempts, d \in Dtos, ok \in BOOLEAN : GetCouponByCode(a, d, ok)
  \/ \E a \in Attempts, ok \in BOOLEAN : IsOrderAlreadyUsed(a, ok)
  \/ \E a \in Attempts, ok \in BOOLEAN : UpdateCouponStatus(a, ok)
  \/ \E a \in Attempts, ok \in BOOLEAN : GetUserCouponUsageCount(a, ok)
  \/ \E a \in Attempts, ok \in BOOLEAN : Transaction(a, ok)
  \/ Tick

Spec == Init /\ [][Next]_vars

\* a time_specific coupon without usage limits and without minimum order
\* value, issued with the given discount
DiscountRow(discountType, discountValue, maxDiscountAmount) ==
  [TimeSpecificRow(0) EXCEPT !.discount_type = discountType,
                             !.discount_value = discountValue,
                             !.max_discount_amount = maxDiscountAmount,
                             !.min_order_value = 0]

\* every attempt has passed the validation of the same request on the same
\* coupon, inside its window, and is about to compute the discount
InitDiscount ==
  /\ \E discountType \in {"percentage", "fixed"},
        discountValue \in 1..MaxDiscountValue,
        maxDiscountAmount \in 0..MaxDiscountAmount,
        orderValue \in 1..MaxOrderValue :
       /\ coupons = [code \in Codes |->
                      IF code = "USER-1" THEN UserSpecificRow
                      ELSE DiscountRow(discountType, discountValue,
                                       maxDiscountAmount)]
       /\ dto = [a \in Attempts |->
                  [code |-> "PROMO-1", userId |-> "u1", orderId |-> NoOrder,
                   orderValue |-> orderValue]]
       /\ coupon = [a \in Attempts |-> getCouponByCode(coupons, "PROMO-1")]
  /\ coupon_usage = <<>>
  /\ now = 1
  /\ pc = [a \in Attempts |-> "transaction"]
  /\ result = [a \in Attempts |-> Denied(UnknownError)]
  /\ txOutcome = [a \in Attempts |-> "none"]
  /\ storeFailed = {}
  /\ queue = <<>>
  /\ flushInterval = TRUE
  /\ isProcessing = FALSE
  /\ flights = <<>>
  /\ written = <<>>
  /\ attempted = {}
  /\ nextLog = 0
  /\ shutdownPc = "none"
  /\ atShutdown = {}

NextDiscount ==
  \E a \in Attempts, ok \in BOOLEAN : Transaction(a, ok)

\* requests with whole-number amounts (written in hundredths) on coupons
\* with whole-number values and caps: every combination within the bounds,
\* and fixed 30 on 100, 20% on 1000 with cap 150
WholeInputs ==
  {[discountType |-> t, discountValue |-> IF t = "fixed" THEN 100 * v ELSE v,
    maxDiscountAmount |-> 100 * c, orderValue |-> 100 * o] :
     t \in {"percentage", "fixed"}, v \in 1..MaxDiscountValue,
     c \in 0..MaxDiscountAmount, o \in 1..MaxOrderValue}
  \cup {[discountType |-> "fixed", discountValue |-> 3000,
         maxDiscountAmount |-> 0, orderValue |-> 10000],
        [discountType |-> "percentage", discountValue |-> 20,
         maxDiscountAmount |-> 15000, orderValue |-> 100000]}

\* every attempt has passed the validation of the same whole-number request
\* and is about to compute the discount
InitWhole ==
  /\ \E in \in WholeInputs :
       /\ coupons = [code \in Codes |->
                      IF code = "USER-1" THEN UserSpecificRow
                      ELSE DiscountRow(in.discountType, in.discountValue,
                                       in.maxDiscountAmount)]
       /\ dto = [a \in Attempts |->
                  [code |-> "PROMO-1", userId |-> "u1", orderId |-> NoOrder,
                   orderValue |-> in.orderValue]]
       /\ coupon = [a \in Attempts |-> getCouponByCode(coupons, "PROMO-1")]
  /\ coupon_usage = <<>>
  /\ now = 1
  /\ pc = [a \in Attempts |-> "transaction"]
  /\ result = [a \in Attempts |-> Denied(UnknownError)]
  /\ txOutcome = [a \in Attempts |-> "none"]
  /\ storeFailed = {}
  /\ queue = <<>>
  /\ flushInterval = TRUE
  /\ isProcessing = FALSE
  /\ flights = <<>>
  /\ written = <<>>
  /\ attempted = {}
  /\ nextLog = 0
  /\ shutdownPc = "none"
  /\ atShutdown = {}

SpecWhole == InitWhole /\ [][NextDiscount]_vars

\* every attempt has passed the validation of the same request on a coupon
\* the issuance schemas accept: discountValue is any positive number, for
\* percentage too (here up to twice MaxDiscountValue), with or without cap
InitAccepted ==
  /\ \E discountType \in {"percentage", "fixed"},
        discountValue \in 1..(2 * MaxDiscountValue),
        maxDiscountAmount \in 0..MaxDiscountAmount,
        orderValue \in 1..MaxOrderValue :
       /\ coupons = [code \in Codes |->
                      IF code = "USER-1" THEN UserSpecificRow
                      ELSE DiscountRow(discountType, discountValue,
                                       maxDiscountAmount)]
       /\ dto = [a \in Attempts |->
                  [code |-> "PROMO-1", userId |-> "u1", orderId |-> NoOrder,
                   orderValue |-> orderValue]]
       /\ coupon = [a \in Attempts |-> getCouponByCode(coupons, "PROMO-1")]
  /\ coupon_usage = <<>>
  /\ now = 1
  /\ pc = [a \in Attempts |-> "transaction"]
  /\ result = [a \in Attempts |-> Denied(UnknownError)]
  /\ txOutcome = [a \in Attempts |-> "none"]
  /\ storeFailed = {}
  /\ queue = <<>>
  /\ flushInterval = TRUE
  /\ isProcessing = FALSE
  /\ flights = <<>>
  /\ written = <<>>
  /\ attempted = {}
  /\ nextLog = 0
  /\ shutdownPc = "none"
  /\ atShutdown = {}

SpecAccepted == InitAccepted /\ [][NextDiscount]_vars

SpecDiscount == InitDiscount /\ [][NextDiscount]_vars

\* the tables after MaxTotalUses concurrent attempts on the time_specific
\* coupon, each of which fetched the counter at 0, have all committed: the
\* counter is at max_total_uses and the status is still active
InitAtCap ==
  /\ coupons = [code \in Codes |->
                 IF code = "USER-1" THEN UserSpecificRow
                 ELSE [TimeSpecificRow(MaxTotalUses)
                         EXCEPT !.current_total_uses = MaxTotalUses]]
  /\ coupon_usage =
       [i \in 1..MaxTotalUses |->
          [coupon_id |-> "PROMO-1",
           user_id |-> IF i = 1 THEN "u1" ELSE "u2",
           order_id |-> NoOrder, order_value |-> 10000,
           discount_applied |-> 1500]]
  /\ now = 1
  /\ pc = [a \in Attempts |-> "idle"]
  /\ dto = [a \in Attempts |-> NoDto]
  /\ coupon = [a \in Attempts |-> NoCoupon]
  /\ result = [a \in Attempts |-> Denied(UnknownError)]
  /\ txOutcome = [a \in Attempts |-> "none"]
  /\ storeFailed = {}
  /\ queue = <<>>
  /\ flushInterval = TRUE
  /\ isProcessing = FALSE
  /\ flights = <<>>
  /\ written = <<>>
  /\ attempted = {}
  /\ nextLog = 0
  /\ shutdownPc = "none"
  /\ atShutdown = {}

SpecAtCap == InitAtCap /\ [][Next]_vars

NextQueue ==
  \/ \E valid \in BOOLEAN : LogValidationAttempt(valid)
  \/ TimerFlush
  \/ \E i \in 1..Len(flights) : WriteOk(i)
  \/ \E i \in 1..Len(flights) : WriteFail(i)
  \/ Shutdown

SpecQueue == Init /\ [][NextQueue]_vars

\* requests of u1 for the user_specific coupon and for an unknown code,
\* served while the batcher flushes the log entries of these requests and
\* of denied requests served elsewhere; the coupons are as issued
DtosAudit ==
  {d \in Dtos : /\ d.userId = "u1" /\ d.orderId = NoOrder
                /\ d.code # "PROMO-1" /\ d.orderValue = 10000}

InitAudit ==
  /\ Init
  /\ coupons = [code \in Codes |->
                 IF code = "USER-1" THEN UserSpecificRow
                 ELSE TimeSpecificRow(0)]

NextAudit ==
  \/ \E a \in Attempts, d \in DtosAudit, ok \in BOOLEAN :
       GetCouponByCode(a, d, ok)
  \/ \E a \in Attempts, ok \in BOOLEAN : GetUserCouponUsageCount(a, ok)
  \/ \E a \in Attempts, ok \in BOOLEAN : Transaction(a, ok)
  \/ LogValidationAttempt(FALSE)
  \/ TimerFlush
  \/ \E i \in 1..Len(flights) : WriteOk(i)
  \/ \E i \in 1..Len(flights) : WriteFail(i)

SpecAudit == InitAudit /\ [][NextAudit]_vars

\* the batcher with what the event loop guarantees by itself: an armed
\* setInterval timer keeps firing; nothing bounds the write of flushCallback
SpecQueueTimer == SpecQueue /\ WF_vars(TimerFlush)

\* the call of flushCallback in flight completes or fails
WriteSettles == \E i \in 1..Len(flights) : WriteOk(i) \/ WriteFail(i)

\* the batcher on a store that answers every write: the timer keeps firing
\* and every call of flushCallback eventually completes or fails
SpecQueueLive == SpecQueueTimer /\ WF_vars(WriteSettles)

TypeOK ==
  /\ now \in 0..MaxTime
  /\ \A a \in Attempts : result[a].valid \in BOOLEAN

\* ------------------------------------------------------------------ claims
UsageOf(code) == {i \in 1..Len(coupon_usage) : coupon_usage[i].coupon_id = code}
Done(a) == pc[a] \in {"returned", "thrown"}
PermittedAttempts(code) ==
  {a \in Attempts : pc[a] = "returned" /\ result[a].valid /\ dto[a].code = code}

\* C1: at most one redemption record references a user_specific coupon,
\* under any interleaving of validateCoupon attempts.
C1_SingleUserAtMostOneRecord ==
  \A code \in Codes :
    coupons[code].type = USER_SPECIFIC => Cardinality(UsageOf(code)) <= 1

\* C2: the stored current_total_uses of a time_specific coupon with a
\* max_total_uses never exceeds it, and at most max_total_uses attempts (the
\* counter starts at 0) are Permitted.
C2_CounterNeverExceedsCap ==
  \A code \in Codes :
    (coupons[code].type = TIME_SPECIFIC /\ coupons[code].max_total_uses # 0)
      => /\ coupons[code].current_total_uses <= coupons[code].max_total_uses
         /\ Cardinality(PermittedAttempts(code)) <= coupons[code].max_total_uses

\* C3: no two redemption records share the same non-null order id, whatever
\* coupons they reference.
C3_OrderIdUnique ==
  \A i, j \in 1..Len(coupon_usage) :
    (i # j /\ coupon_usage[i].order_id # NoOrder)
      => coupon_usage[i].order_id # coupon_usage[j].order_id

\* C3 witness: two attempts carried the same order id against different
\* coupons, one committed its record and the index rejected the other
C3_Witness ==
  \E a, b \in Attempts :
    /\ a # b
    /\ dto[a].orderId # NoOrder /\ dto[a].orderId = dto[b].orderId
    /\ dto[a].code # dto[b].code
    /\ txOutcome[a] = "committed" /\ txOutcome[b] = "conflict"

\* C4: an attempt whose commit is rejected by the unique index on order_id
\* returns valid=false with the duplicate-order reason, like a rule-4 denial.
C4_RaceLoserIsDuplicateDenial ==
  \A a \in Attempts :
    txOutcome[a] = "conflict"
      => pc[a] = "returned" /\ result[a] = Denied(DuplicateOrder)

\* C5: with max_total_uses 1 and counter 0, two attempts by the same user
\* with different order ids, both evaluated inside the window with no store
\* failure, end with exactly one Permitted and the other Denied with
\* 'Coupon usage limit reached'.
C5_CapOneScenario ==
  \A a, b \in Attempts :
    ( /\ a # b
      /\ Done(a) /\ Done(b)
      /\ dto[a].code = "PROMO-1" /\ dto[b].code = "PROMO-1"
      /\ \A x \in Attempts \ {a, b} : dto[x].code # "PROMO-1"
      /\ coupons["PROMO-1"].max_total_uses = 1
      /\ coupons["PROMO-1"].status # EXPIRED
      /\ dto[a].userId = dto[b].userId
      /\ dto[a].orderId # NoOrder /\ dto[b].orderId # NoOrder
      /\ dto[a].orderId # dto[b].orderId
      /\ dto[a].orderValue >= 5000 /\ dto[b].orderValue >= 5000
      /\ pc[a] = "returned" /\ pc[b] = "returned"
      /\ result[a].reason # ExpiredOrNotYetValid
      /\ result[b].reason # ExpiredOrNotYetValid )
    => \/ result[a].valid /\ result[b] = Denied(UsageLimitReached)
       \/ result[b].valid /\ result[a] = Denied(UsageLimitReached)

\* C6: no user has more than max_uses_per_user redemption records against a
\* time_specific coupon.
C6_PerUserCap ==
  \A code \in Codes : \A u \in Users :
    (coupons[code].type = TIME_SPECIFIC /\ coupons[code].max_uses_per_user # 0)
      => getUserCouponUsageCount(coupon_usage, code, u)
           <= coupons[code].max_uses_per_user

\* C7: validateCoupon returns valid=true only if the transaction of the same
\* attempt committed its redemption record; an attempt whose transaction
\* failed or was rolled back never returns valid=true.
C7_PermittedOnlyIfCommitted ==
  \A a \in Attempts :
    /\ result[a].valid =>
         /\ txOutcome[a] = "committed"
         /\ \E i \in 1..Len(coupon_usage) :
              coupon_usage[i] =
                [coupon_id |-> dto[a].code, user_id |-> dto[a].userId,
                 order_id |-> dto[a].orderId,
                 order_value |-> dto[a].orderValue,
                 discount_applied |-> result[a].discountAmount]
    /\ txOutcome[a] \in {"conflict", "error"} =>
         ~result[a].valid /\ pc[a] = "thrown"
    /\ Cardinality({b \in Attempts : result[b].valid}) <= Len(coupon_usage)

\* C7 witness: one attempt was Permitted after its commit, another attempt's
\* transaction was rolled back and it threw
C7_Witness ==
  \E a, b \in Attempts :
    /\ pc[a] = "returned" /\ result[a].valid /\ txOutcome[a] = "committed"
    /\ txOutcome[b] \in {"conflict", "error"} /\ pc[b] = "thrown"

\* C8: in every state outside a transaction, each coupon's current_total_uses
\* equals the number of redemption records that reference the coupon.
C8_CounterEqualsRecords ==
  \A code \in Codes :
    coupons[code].current_total_uses = Cardinality(UsageOf(code))

\* C8 witness: a coupon has a committed record and counter >= 1, and another
\* transaction on the same coupon was rolled back
C8_Witness ==
  \E a, b \in Attempts :
    /\ txOutcome[a] \in {"conflict", "error"}
    /\ txOutcome[b] = "committed" /\ dto[b].code = dto[a].code
    /\ coupons[dto[a].code].current_total_uses >= 1
    /\ Cardinality(UsageOf(dto[a].code)) >= 1

\* C9: no reachable state has current_total_uses >= max_total_uses with the
\* coupon still active.
C9_ExhaustedAtCap ==
  \A code \in Codes :
    (coupons[code].max_total_uses # 0
       /\ coupons[code].current_total_uses >= coupons[code].max_total_uses)
      => coupons[code].status # ACTIVE

\* C10: when shutdown() returns, the buffer is empty and every entry enqueued
\* before shutdown() was called has been part of a write attempt.
C10_ShutdownDrains ==
  [][(shutdownPc # "returned" /\ shutdownPc' = "returned")
       => /\ queue' = <<>>
          /\ atShutdown' \subseteq attempted']_vars

\* the entries of a sequence of batches, in order
RECURSIVE Concat(_)
Concat(batches) ==
  IF batches = <<>> THEN <<>>
  ELSE Head(batches) \o Concat(Tail(batches))

\* where the entries handed to add() are: buffer, in-flight batches, written
Held ==
  queue \o Concat([i \in 1..Len(flights) |-> flights[i].logs]) \o Concat(written)

\* C11: every entry handed to add() is in exactly one of the buffer, the
\* in-flight batch and the successfully written batches; none is lost, none
\* is in two batches, none is written twice.
C11_NoEntryLostOrDuplicated ==
  /\ Len(Held) = nextLog
  /\ \A id \in 1..nextLog :
       Cardinality({i \in 1..Len(Held) : Held[i].id = id}) = 1

\* C11 witness: a batch was written, and a batch whose write failed is back
\* in the buffer together with an entry added during its write
C11_Witness ==
  /\ written # <<>>
  /\ Len(queue) >= 2
  /\ queue[1].id \in attempted
  /\ queue[Len(queue)].id \notin attempted

\* C12: at most one batched write is in flight, and while one is in flight
\* a flush() called by add, the timer or shutdown issues no write and leaves
\* the buffer as it is (add has pushed its entry before it calls flush).
C12_FlushesNeverOverlap ==
  [][/\ Len(flights') <= 1
     /\ isProcessing' <=> (Len(flights') = 1)
     /\ isProcessing =>
          /\ Len(flights') <= Len(flights)
          /\ (flights' = flights /\ nextLog' = nextLog) => queue' = queue
          /\ nextLog' # nextLog =>
               /\ flights' = flights
               /\ Len(queue') = Len(queue) + 1
               /\ SubSeq(queue', 1, Len(queue)) = queue]_vars

\* C12 witness: while the timer's write is in flight, add has filled the
\* buffer up to BATCH_SIZE and shutdown() has called flush and returned
C12_Witness ==
  /\ Len(flights) = 1
  /\ flights[1].by = "timer"
  /\ Len(queue) >= BATCH_SIZE
  /\ shutdownPc = "returned"

\* C13: when a batched write fails, the buffer right after is the failed
\* batch in its order followed by the entries added during the write, which
\* are all newer than the batch.
C13_FailedBatchPrepended ==
  [][(Len(flights') < Len(flights) /\ written' = written)
       => /\ queue' = flights[1].logs \o queue
          /\ \A i, j \in 1..Len(queue') :
               i < j => queue'[i].id < queue'[j].id]_vars

\* C13 witness: the buffer holds a batch that was handed to flushCallback,
\* then an entry that never was, with no write in flight and none written
C13_Witness ==
  /\ flights = <<>>
  /\ written = <<>>
  /\ Len(queue) >= 2
  /\ queue[1].id \in attempted
  /\ queue[Len(queue)].id \notin attempted

\* the entry that add() was handed as its id-th
EntryOf(id) ==
  LET i == CHOOSE i \in 1..Len(Held) : Held[i].id = id
  IN  Held[i]

\* the attempts that leave validateCoupon in this step
Leaving == {a \in Attempts : ~Done(a) /\ Done(a)'}

\* C14: every call of validateCoupon enqueues exactly one log entry on the
\* way out, on every path (not found, denial, Permitted, throw), and the
\* entry's isValid is true exactly when the call returned valid=true.
C14_OneEntryPerAttempt ==
  [][/\ \A a \in Attempts :
          (pc'[a] # pc[a] /\ a \in Leaving) =>
            /\ nextLog' = nextLog + 1
            /\ Len(Held') = nextLog'
            /\ (EntryOf(nextLog))'.isValid
                 = (pc'[a] = "returned" /\ result'[a].valid)
     /\ nextLog' # nextLog =>
          /\ Cardinality(Leaving) = 1
          /\ nextLog' = Cardinality({a \in Attempts : Done(a)'})]_vars

\* C14 witness: one call threw and one returned valid=true, and the buffer
\* holds their two entries, one with isValid false and one with isValid true
C14_Witness ==
  \E a, b \in Attempts :
    /\ pc[a] = "thrown"
    /\ pc[b] = "returned" /\ result[b].valid
    /\ nextLog = 2
    /\ Len(queue) = 2
    /\ queue[1].isValid # queue[2].isValid

\* C15: a coupon whose stored status is expired, exhausted or inactive is
\* never set back to active by any validateCoupon step.
C15_StatusNeverRevived ==
  [][\A code \in Codes :
       coupons[code].status # ACTIVE => coupons'[code].status # ACTIVE]_vars

\* C15 witness: an attempt has set the coupon expired, a later attempt ran
\* against the expired coupon, and the stored status is still expired
C15_Witness ==
  \E a, b \in Attempts :
    /\ dto[a].code = "PROMO-1" /\ dto[b].code = "PROMO-1"
    /\ pc[a] = "returned" /\ result[a] = Denied(ExpiredOrNotYetValid)
    /\ pc[b] = "returned" /\ result[b] = Denied(NotActive(EXPIRED))
    /\ coupons["PROMO-1"].status = EXPIRED

\* the reasons given by rule 5, the type-specific validation
PolicyReasons ==
  {NotAssigned, AlreadyUsed, ExpiredOrNotYetValid, UsageLimitReached,
   UserLimitReached}

\* the awaits behind which an attempt writes to the tables
WritingSteps == {"updateExpired", "updateExhausted", "transaction"}

\* C16: the rules are evaluated in the order coupon exists, status active,
\* minimum order value, order id not used, type-specific validation; the
\* first one violated gives the reason, and an attempt denied by one of
\* rules 1 to 4 writes nothing (no status change, no record).
C16_RuleOrderShortCircuits ==
  [][\A a \in Attempts :
       pc'[a] # pc[a] =>
         /\ (pc[a] = "idle" /\ pc'[a] # "thrown") =>
              LET d == dto'[a]
              IN  /\ d.code \notin Codes =>
                       pc'[a] = "returned" /\ result'[a] = Denied(NotFound)
                  /\ (d.code \in Codes /\ coupons[d.code].status # ACTIVE) =>
                       /\ pc'[a] = "returned"
                       /\ result'[a] = Denied(NotActive(coupons[d.code].status))
                  /\ ( /\ d.code \in Codes
                       /\ coupons[d.code].status = ACTIVE
                       /\ d.orderValue < coupons[d.code].min_order_value ) =>
                       /\ pc'[a] = "returned"
                       /\ result'[a] = Denied(MinOrderNotMet)
                  /\ pc'[a] \in WritingSteps \cup {"getUserCouponUsageCount"}
                       => d.orderId = NoOrder
         /\ ( /\ pc[a] = "isOrderAlreadyUsed" /\ pc'[a] # "thrown"
              /\ isOrderAlreadyUsed(coupon_usage, dto[a].orderId) ) =>
              pc'[a] = "returned" /\ result'[a] = Denied(DuplicateOrder)
         /\ (a \in Leaving /\ pc[a] \notin WritingSteps) => UNCHANGED dbVars
         /\ ( \/ a \in Leaving /\ result'[a].reason \in PolicyReasons
              \/ pc'[a] \in WritingSteps ) =>
              /\ dto'[a].code \in Codes
              /\ dto'[a].orderValue >= coupons[dto'[a].code].min_order_value
              /\ pc[a] = "idle" => coupons[dto'[a].code].status = ACTIVE
              /\ pc[a] = "isOrderAlreadyUsed" =>
                   ~isOrderAlreadyUsed(coupon_usage, dto[a].orderId)]_vars

\* C16 witness: an active time_specific coupon past its valid_until was
\* attempted with an order value below the minimum: the attempt was denied
\* for the minimum order value and the coupon is still active
C16_Witness ==
  \E a \in Attempts :
    /\ dto[a].code = "PROMO-1"
    /\ dto[a].orderValue < coupons["PROMO-1"].min_order_value
    /\ now > coupons["PROMO-1"].valid_until
    /\ pc[a] = "returned" /\ result[a] = Denied(MinOrderNotMet)
    /\ coupons["PROMO-1"].status = ACTIVE
    /\ \A b \in Attempts : pc[b] \in {"idle", "returned"}

\* in this step attempt a passes rules 1 to 4 and validateTimeSpecificCoupon
\* evaluates the date check
DateCheckEvaluated(a) ==
  /\ pc[a] \in {"idle", "isOrderAlreadyUsed"}
  /\ dto'[a].code \in Codes
  /\ coupons[dto'[a].code].type = TIME_SPECIFIC
  /\ \/ pc'[a] \in WritingSteps \cup {"getUserCouponUsageCount"}
     \/ pc'[a] = "returned" /\ result'[a].reason \in PolicyReasons

\* the date check denies attempt a in this step
DeniedByDateCheck(a) ==
  \/ pc'[a] = "updateExpired"
  \/ pc'[a] = "returned" /\ result'[a] = Denied(ExpiredOrNotYetValid)

\* C17: the validity window is [valid_from, valid_until): an attempt whose
\* date check is evaluated at exactly valid_until is denied by it, one
\* evaluated at exactly valid_from passes it.
C17_WindowHalfOpen ==
  [][\A a \in Attempts :
       DateCheckEvaluated(a) =>
         /\ now = coupons[dto'[a].code].valid_until => DeniedByDateCheck(a)
         /\ now = coupons[dto'[a].code].valid_from => ~DeniedByDateCheck(a)]_vars

\* C18: an attempt on an active time_specific coupon that passes rules 1 to
\* 4 after valid_until is denied as expired, commits no record, and leaves
\* the stored status expired (the status update not failing).
C18_ExpiredDeniedAndMarked ==
  [][\A a \in Attempts :
       pc'[a] # pc[a] =>
         /\ (DateCheckEvaluated(a) /\ now > coupons[dto'[a].code].valid_until)
              => pc'[a] = "updateExpired" /\ UNCHANGED dbVars
         /\ (pc[a] = "updateExpired" /\ pc'[a] # "thrown")
              => /\ pc'[a] = "returned"
                 /\ result'[a] = Denied(ExpiredOrNotYetValid)
                 /\ coupons'[dto[a].code].status = EXPIRED
                 /\ coupon_usage' = coupon_usage
         /\ (a \in Leaving /\ result'[a] = Denied(ExpiredOrNotYetValid)
                /\ now > coupons[dto'[a].code].valid_until)
              => coupons'[dto'[a].code].status = EXPIRED]_vars

\* C18 witness: past valid_until, an attempt on the coupon returned the
\* expired denial, the status is expired and the coupon has no record
C18_Witness ==
  \E a \in Attempts :
    /\ dto[a].code = "PROMO-1"
    /\ now > coupons["PROMO-1"].valid_until
    /\ pc[a] = "returned" /\ result[a] = Denied(ExpiredOrNotYetValid)
    /\ coupons["PROMO-1"].status = EXPIRED
    /\ UsageOf("PROMO-1") = {}

\* the reasons of the results validateCoupon returns with valid=false
DeniedReasons ==
  PolicyReasons \cup {NotFound, MinOrderNotMet, DuplicateOrder}
    \cup {NotActive(status) : status \in CouponStatus}

\* C19: an attempt one of whose store operations failed (getCouponByCode,
\* isOrderAlreadyUsed, getUserCouponUsageCount, updateCouponStatus, the
\* transaction) ends by throwing: it returns neither a denial, 'Coupon not
\* found' included, nor valid=true, and commits no record.
C19_StoreFailureIsError ==
  /\ \A a \in storeFailed :
       /\ pc[a] = "thrown"
       /\ ~result[a].valid
       /\ result[a].reason \notin DeniedReasons
       /\ txOutcome[a] # "committed"
  /\ \A a \in Attempts :
       /\ txOutcome[a] = "error" => a \in storeFailed
       /\ pc[a] = "returned" =>
            result[a].valid \/ result[a].reason \in DeniedReasons

\* C19 witness: one attempt's fetch failed, another attempt's commit
\* failed, both threw, and no record was committed
C19_Witness ==
  \E a, b \in Attempts :
    /\ a \in storeFailed /\ b \in storeFailed
    /\ txOutcome[a] = "none" /\ dto[a].code = "NOPE"
    /\ txOutcome[b] = "error"
    /\ pc[a] = "thrown" /\ pc[b] = "thrown"
    /\ coupon_usage = <<>>

\* C20: the discount calculateDiscount computes for a percentage coupon
\* with a max_discount_amount never exceeds it, and attempts with the same
\* order value on the same coupon get the same discount.
C20_PercentageDiscountCapped ==
  \A a \in Attempts :
    (pc[a] = "returned" /\ result[a].valid) =>
      LET row == coupons[dto[a].code]
      IN  /\ result[a].discountAmount >= 0
          /\ (row.discount_type = "percentage" /\ row.max_discount_amount # 0)
               => result[a].discountAmount <= row.max_discount_amount
          /\ \A b \in Attempts :
               (pc[b] = "returned" /\ result[b].valid /\ dto[b] = dto[a])
                 => result[b].discountAmount = result[a].discountAmount
          /\ \A i \in UsageOf(dto[a].code) :
               coupon_usage[i].discount_applied = result[a].discountAmount

\* C20 witness: the percentage of the order value is above the configured
\* max_discount_amount and two attempts were given exactly that amount
C20_Witness ==
  \E a, b \in Attempts :
    /\ a # b
    /\ pc[a] = "returned" /\ result[a].valid
    /\ pc[b] = "returned" /\ result[b].valid
    /\ LET row == coupons[dto[a].code]
       IN  /\ row.discount_type = "percentage"
           /\ row.max_discount_amount # 0
           /\ dto[a].orderValue * row.discount_value
                > 100 * row.max_discount_amount
           /\ result[a].discountAmount = row.max_discount_amount

\* the attempts whose transaction on the coupon committed
Committed(code) ==
  {a \in Attempts : txOutcome[a] = "committed" /\ dto[a].code = code}

\* C21: an attempt that returns valid=false has written no redemption
\* record and incremented no counter: only attempts whose transaction
\* committed account for the records and the counters.
C21_DeniedChangesNoAccounting ==
  /\ \A a \in Attempts :
       (pc[a] = "returned" /\ ~result[a].valid) => txOutcome[a] = "none"
  /\ \A code \in Codes :
       /\ Cardinality(UsageOf(code)) = Cardinality(Committed(code))
       /\ coupons[code].current_total_uses = Cardinality(Committed(code))
  /\ Len(coupon_usage)
       = Cardinality({a \in Attempts : txOutcome[a] = "committed"})

\* C21 witness: after one attempt committed a record, another attempt on
\* the same coupon was denied as expired and set the status, and the coupon
\* still has the one record and counter 1
C21_Witness ==
  \E a, b \in Attempts :
    /\ dto[a].code = "PROMO-1" /\ dto[b].code = "PROMO-1"
    /\ pc[a] = "returned" /\ result[a].valid
    /\ pc[b] = "returned" /\ result[b] = Denied(ExpiredOrNotYetValid)
    /\ coupons["PROMO-1"].status = EXPIRED
    /\ Cardinality(UsageOf("PROMO-1")) = 1
    /\ coupons["PROMO-1"].current_total_uses = 1

\* C22: once shutdown() has been called, add() accepts no entry (the entry
\* does not enter the buffer) and no further write is issued.
C22_StoppedAcceptsNothing ==
  [][shutdownPc # "none" =>
       /\ Len(Held') <= Len(Held)
       /\ Len(flights') <= Len(flights)]_vars

\* C23: shutdown() always eventually returns: a final flushCallback that
\* rejects, or that never settles, does not keep shutdown() waiting forever.
C23_ShutdownReturns ==
  (shutdownPc = "awaiting") ~> (shutdownPc = "returned")

\* C24: a failed batched write never reaches the request path: the step in
\* which a write fails (or succeeds) changes no attempt and no table, and a
\* validateCoupon call throws only for a failure of its own store
\* operations, whatever the batcher is doing when the call enqueues its log.
C24_WriteFailureStaysLocal ==
  [][/\ Len(flights') < Len(flights) =>
          UNCHANGED <<pc, result, txOutcome, coupons, coupon_usage>>
     /\ \A a \in Attempts :
          pc'[a] # pc[a] =>
            /\ pc'[a] = "thrown" =>
                 a \in storeFailed' \/ txOutcome'[a] = "conflict"
            /\ a \in Leaving => Len(Held') = Len(Held) + 1]_vars

\* C24 witness: a write has failed and its batch is back in the buffer,
\* and attempts have returned valid=true and a denial
C24_Witness ==
  /\ flights = <<>>
  /\ queue # <<>> /\ queue[1].id \in attempted
  /\ \E a, b \in Attempts :
       /\ pc[a] = "returned" /\ result[a].valid
       /\ pc[b] = "returned" /\ ~result[b].valid

\* the records that carry the order id, whichever coupon they reference
RecordsOfOrder(orderId) ==
  {i \in 1..Len(coupon_usage) : coupon_usage[i].order_id = orderId}

\* C25: the duplicate-order rule is global: an attempt with an order id
\* that starts when a record with that order id exists, for whichever
\* coupon, is denied and commits nothing, and its order check answers
\* 'already used' although the record references another coupon; an
\* attempt without order id is never checked or denied by this rule.
C25_DuplicateOrderIsGlobal ==
  [][\A a \in Attempts :
       (pc'[a] # pc[a] /\ pc'[a] # "thrown") =>
         LET d == dto'[a]
         IN  /\ (pc[a] = "idle" /\ d.orderId # NoOrder
                   /\ RecordsOfOrder(d.orderId) # {}) =>
                  \/ pc'[a] = "isOrderAlreadyUsed"
                  \/ pc'[a] = "returned" /\ ~result'[a].valid
             /\ (pc[a] = "isOrderAlreadyUsed"
                   /\ RecordsOfOrder(d.orderId) # {}) =>
                  /\ pc'[a] = "returned"
                  /\ result'[a] = Denied(DuplicateOrder)
                  /\ UNCHANGED <<coupons, coupon_usage, txOutcome>>
             /\ d.orderId = NoOrder =>
                  /\ pc'[a] # "isOrderAlreadyUsed"
                  /\ result'[a].reason # DuplicateOrder]_vars

\* C25 witness: an attempt is denied as duplicate order although no record
\* with its order id references its coupon
C25_Witness ==
  \E a \in Attempts :
    /\ pc[a] = "returned" /\ result[a] = Denied(DuplicateOrder)
    /\ txOutcome[a] = "none"
    /\ RecordsOfOrder(dto[a].orderId) # {}
    /\ RecordsOfOrder(dto[a].orderId) \cap UsageOf(dto[a].code) = {}

\* C26: every change of a coupon's stored status starts from active: a
\* coupon that is expired, exhausted or inactive in the table never changes
\* to a different status, whatever attempts with a stale view do.
C26_StatusChangesOnlyFromActive ==
  [][\A code \in Codes :
       coupons[code].status # ACTIVE =>
         coupons'[code].status = coupons[code].status]_vars

\* the counter and the cap of the coupon attempt a holds when its
\* type-specific validation runs in this step
FetchedCounter(a) ==
  IF pc[a] = "idle" THEN coupons[dto'[a].code].current_total_uses
  ELSE coupon[a].currentTotalUses
FetchedCap(a) ==
  IF pc[a] = "idle" THEN coupons[dto'[a].code].max_total_uses
  ELSE coupon[a].maxTotalUses

\* C27: an attempt on an active time_specific coupon that passes rules 1 to
\* 4 inside the window with a fetched counter at or above max_total_uses is
\* denied with 'Coupon usage limit reached', commits nothing, and leaves
\* the stored status exhausted (the status update not failing).
C27_AtCapDeniedAndMarked ==
  [][\A a \in Attempts :
       pc'[a] # pc[a] =>
         /\ ( /\ DateCheckEvaluated(a)
              /\ coupons[dto'[a].code].valid_from <= now
              /\ now < coupons[dto'[a].code].valid_until
              /\ FetchedCap(a) # 0
              /\ FetchedCounter(a) >= FetchedCap(a) )
              => pc'[a] = "updateExhausted" /\ UNCHANGED dbVars
         /\ (pc[a] = "updateExhausted" /\ pc'[a] # "thrown")
              => /\ pc'[a] = "returned"
                 /\ result'[a] = Denied(UsageLimitReached)
                 /\ coupons'[dto[a].code].status = EXHAUSTED
                 /\ coupons'[dto[a].code].current_total_uses
                      = coupons[dto[a].code].current_total_uses
                 /\ coupon_usage' = coupon_usage
                 /\ txOutcome'[a] = "none"]_vars

\* C27 witness: inside the window, an attempt on the coupon at its cap
\* returned the usage-limit denial, the status is exhausted and the coupon
\* has the records it had
C27_Witness ==
  \E a \in Attempts :
    /\ dto[a].code = "PROMO-1"
    /\ now < coupons["PROMO-1"].valid_until
    /\ pc[a] = "returned" /\ result[a] = Denied(UsageLimitReached)
    /\ txOutcome[a] = "none"
    /\ coupons["PROMO-1"].status = EXHAUSTED
    /\ coupons["PROMO-1"].current_total_uses = coupons["PROMO-1"].max_total_uses
    /\ Cardinality(UsageOf("PROMO-1")) = coupons["PROMO-1"].max_total_uses

\* C28: applying the expired or exhausted transition is best-effort: an
\* attempt that reached the status update returns the policy denial it
\* reached it with, whether or not the update succeeds.
C28_StatusUpdateBestEffort ==
  [][\A a \in Attempts :
       pc'[a] # pc[a] =>
         /\ pc[a] = "updateExpired" =>
              pc'[a] = "returned" /\ result'[a] = Denied(ExpiredOrNotYetValid)
         /\ pc[a] = "updateExhausted" =>
              pc'[a] = "returned" /\ result'[a] = Denied(UsageLimitReached)]_vars

\* the entry with this id is in the buffer / in the batch of a write attempt
Buffered(id) == \E i \in 1..Len(queue) : queue[i].id = id
InFlight(id) ==
  \E i \in 1..Len(flights) :
    \E j \in 1..Len(flights[i].logs) : flights[i].logs[j].id = id

\* C29: while the batcher is not shut down, every entry in the buffer,
\* a re-queued one included, is eventually part of a write attempt, given
\* that the timer keeps firing and every write completes or fails.
C29_BufferedEventuallyAttempted ==
  \A id \in 1..MaxLogs :
    (Buffered(id) /\ shutdownPc = "none")
      ~> (InFlight(id) \/ shutdownPc # "none")

\* C29 witness: without shutdown, the timer has started the write of a
\* buffer below BATCH_SIZE, and an entry added since waits in the buffer
C29_Witness ==
  /\ shutdownPc = "none"
  /\ queue # <<>>
  /\ \E i \in 1..Len(flights) :
       /\ flights[i].by = "timer"
       /\ Len(flights[i].logs) < BATCH_SIZE
       /\ InFlight(1)

\* C30: an add() that brings the buffer to BATCH_SIZE or more while no
\* flush is in progress starts the write of the entire buffer, the new
\* entry included, and returns with the buffer empty without waiting for
\* the write; an add() that leaves the buffer below BATCH_SIZE starts no
\* flush.
C30_SizeFlush ==
  [][nextLog' # nextLog =>
       /\ (~isProcessing /\ Len(queue) + 1 >= BATCH_SIZE) =>
            /\ queue' = <<>>
            /\ isProcessing'
            /\ Len(flights') = Len(flights) + 1
            /\ flights'[Len(flights')].by = "add"
            /\ SubSeq(flights'[Len(flights')].logs, 1, Len(queue)) = queue
            /\ Len(flights'[Len(flights')].logs) = Len(queue) + 1
            /\ flights'[Len(flights')].logs[Len(queue) + 1].id = nextLog'
            /\ written' = written
       /\ Len(queue) + 1 < BATCH_SIZE =>
            /\ flights' = flights
            /\ isProcessing' = isProcessing
            /\ Len(queue') = Len(queue) + 1
            /\ SubSeq(queue', 1, Len(queue)) = queue
            /\ queue'[Len(queue')].id = nextLog']_vars

\* C30 witness: an add() has started the write of a buffer that had grown
\* beyond BATCH_SIZE, and the buffer is empty
C30_Witness ==
  /\ queue = <<>>
  /\ isProcessing
  /\ \E i \in 1..Len(flights) :
       flights[i].by = "add" /\ Len(flights[i].logs) > BATCH_SIZE

\* the ids of the entries of a batch
EntryIds(logs) == {logs[i].id : i \in 1..Len(logs)}

\* C31: the batcher leaves Flushing exactly when its write completes or
\* fails: every step in which a write succeeds or fails clears
\* isProcessing, the flag is cleared by no other step, and it is set only
\* by a step that hands a batch to flushCallback.
C31_FlushingExactlyDuringWrite ==
  [][/\ Len(flights') < Len(flights) => ~isProcessing'
     /\ (isProcessing /\ ~isProcessing') =>
          /\ Len(flights') < Len(flights)
          /\ \/ written' = Append(written, flights[1].logs)
             \/ queue' = flights[1].logs \o queue
     /\ (~isProcessing /\ isProcessing') =>
          /\ flights = <<>>
          /\ Len(flights') = 1
          /\ queue' = <<>>]_vars

\* C31 witness: after a completed write and with the whole history of
\* flushes behind it, a later flush started by the timer is in progress
C31_Witness ==
  /\ Len(written) >= 1
  /\ isProcessing
  /\ Len(flights) = 1
  /\ flights[1].by = "timer"
  /\ EntryIds(flights[1].logs) \cap EntryIds(Concat(written)) = {}

\* the entries in the order in which they reach, or are going to reach,
\* the sink: written batches, the batch in flight, the buffer
SinkOrder ==
  Concat(written) \o Concat([i \in 1..Len(flights) |-> flights[i].logs])
    \o queue

\* C32: audit entries reach the sink in enqueue order: whatever adds,
\* flushes, write failures and retries occurred, the written batches taken
\* in order, then the batch in flight, then the buffer list the entries in
\* the order of their add() calls, so no entry is written in an earlier
\* batch than, or ahead in the batch of, one enqueued before it.
C32_SinkInEnqueueOrder ==
  \A i, j \in 1..Len(SinkOrder) :
    i < j => SinkOrder[i].id < SinkOrder[j].id

\* C32 witness: two batches were written, the second of several entries,
\* and an entry added since is in the buffer
C32_Witness ==
  /\ Len(written) = 2
  /\ Len(written[2]) >= 2
  /\ flights = <<>>
  /\ queue # <<>>

\* the reasons of the denials by rules 1 to 4
EarlierRuleReasons == DeniedReasons \ PolicyReasons

\* the attempts on a user_specific coupon by a user it is not bound to
OtherSubject ==
  {a \in Attempts :
     /\ dto[a].code \in Codes
     /\ coupons[dto[a].code].type = USER_SPECIFIC
     /\ dto[a].userId # coupons[dto[a].code].user_id}

\* C33: every record that references a user_specific coupon carries the
\* coupon's user_id; an attempt by any other user never reaches the
\* prior-use check or the transaction, commits nothing, and when it
\* returns it is denied, with 'not assigned' unless one of rules 1 to 4
\* denied it first.
C33_RecordsCarryBoundSubject ==
  /\ \A code \in Codes :
       coupons[code].type = USER_SPECIFIC =>
         \A i \in UsageOf(code) :
           coupon_usage[i].user_id = coupons[code].user_id
  /\ \A a \in OtherSubject :
       /\ pc[a] \notin {"getUserCouponUsageCount", "transaction"}
       /\ txOutcome[a] = "none"
       /\ pc[a] = "returned" =>
            /\ ~result[a].valid
            /\ \/ result[a].reason = NotAssigned
               \/ result[a].reason \in EarlierRuleReasons

\* C33 witness: the bound user has redeemed the coupon, and an attempt by
\* another user with a fresh order id returned 'not assigned'
C33_Witness ==
  \E a, b \in Attempts :
    /\ dto[a].code = "USER-1" /\ dto[b].code = "USER-1"
    /\ dto[a].userId = "u1" /\ txOutcome[a] = "committed"
    /\ dto[b].userId = "u2" /\ dto[b].orderId # dto[a].orderId
    /\ pc[b] = "returned" /\ result[b] = Denied(NotAssigned)
    /\ Cardinality(UsageOf("USER-1")) = 1

\* the reference discount in hundredths for whole-number inputs: the exact
\* percentage clamped to the configured cap, or min(value, orderAmount)
ReferenceDiscount(orderValue, row) ==
  IF row.discount_type = "percentage"
  THEN LET exact == (orderValue * row.discount_value) \div 100
       IN  IF row.max_discount_amount # 0
           THEN Min(exact, row.max_discount_amount)
           ELSE exact
  ELSE Min(row.discount_value, orderValue)

\* C34: for whole-number inputs the discount of a Permitted attempt is the
\* reference discount, the final amount is the order value minus it, and
\* the record carries the same discount (fixed 30 on 100 gives 30 and 70;
\* 20% on 1000 with cap 150 gives 150 and 850).
C34_DiscountEqualsReference ==
  \A a \in Attempts :
    (pc[a] = "returned" /\ result[a].valid) =>
      LET row == coupons[dto[a].code]
          ref == ReferenceDiscount(dto[a].orderValue, row)
      IN  /\ (dto[a].orderValue * row.discount_value) % 100 = 0
          /\ result[a].discountAmount = ref
          /\ result[a].finalAmount = dto[a].orderValue - ref
          /\ \A i \in UsageOf(dto[a].code) :
               coupon_usage[i].discount_applied = ref
          /\ (row.discount_type = "fixed" /\ row.discount_value = 3000
                /\ dto[a].orderValue = 10000) =>
               result[a].discountAmount = 3000 /\ result[a].finalAmount = 7000
          /\ (row.discount_type = "percentage" /\ row.discount_value = 20
                /\ row.max_discount_amount = 15000
                /\ dto[a].orderValue = 100000) =>
               result[a].discountAmount = 15000
                 /\ result[a].finalAmount = 85000

\* C34 witness: 20% on 1000 with cap 150 was Permitted with 150 and 850
C34_Witness ==
  \E a \in Attempts :
    /\ pc[a] = "returned" /\ result[a].valid
    /\ dto[a].orderValue = 100000
    /\ coupons["PROMO-1"].discount_type = "percentage"
    /\ coupons["PROMO-1"].max_discount_amount = 15000
    /\ result[a].discountAmount = 15000
    /\ result[a].finalAmount = 85000

\* C35: a coupon's stored status is exhausted only if it has a
\* max_total_uses and its current_total_uses has reached it.
C35_ExhaustedOnlyAtCap ==
  \A code \in Codes :
    coupons[code].status = EXHAUSTED =>
      /\ coupons[code].max_total_uses # 0
      /\ coupons[code].current_total_uses >= coupons[code].max_total_uses

\* C35 witness: the second of two redemptions, fetched after the first
\* had committed, set the coupon with max_total_uses 2 exhausted
C35_Witness ==
  /\ coupons["PROMO-1"].status = EXHAUSTED
  /\ coupons["PROMO-1"].max_total_uses = 2
  /\ coupons["PROMO-1"].current_total_uses = 2
  /\ Cardinality(Committed("PROMO-1")) = 2

\* C36: no redemption record is committed against a coupon whose stored
\* status is not active at the moment of the commit: a step that adds a
\* record for a coupon starts in a state where that coupon is active.
C36_CommitOnlyWhileActive ==
  [][\A code \in Codes :
       Cardinality(UsageOf(code)') > Cardinality(UsageOf(code)) =>
         coupons[code].status = ACTIVE]_vars

\* C37: for every Permitted attempt, on every coupon the issuance schemas
\* accept, the discount does not exceed the order value and the returned
\* final amount is not negative.
C37_DiscountWithinOrderValue ==
  \A a \in Attempts :
    (pc[a] = "returned" /\ result[a].valid) =>
      /\ result[a].discountAmount <= dto[a].orderValue
      /\ result[a].finalAmount >= 0

\* C38: an attempt that ends by throwing has committed no redemption
\* record and incremented no counter: the records and the counter of each
\* coupon are exactly those of the attempts that returned valid=true.
C38_ErrorCommitsNothing ==
  /\ \A a \in Attempts :
       pc[a] = "thrown" =>
         /\ txOutcome[a] \in {"none", "conflict", "error"}
         /\ ~result[a].valid
  /\ \A code \in Codes :
       /\ Cardinality(UsageOf(code)) = Cardinality(PermittedAttempts(code))
       /\ coupons[code].current_total_uses
            = Cardinality(PermittedAttempts(code))

\* C38 witness: an attempt threw at the unique index on order_id inside
\* its transaction, after the other attempt on the coupon was Permitted,
\* and the coupon has one record and counter 1
C38_Witness ==
  \E a, b \in Attempts :
    /\ dto[a].code = dto[b].code
    /\ pc[a] = "thrown" /\ txOutcome[a] = "conflict"
    /\ pc[b] = "returned" /\ result[b].valid
    /\ Cardinality(UsageOf(dto[a].code)) = 1
    /\ coupons[dto[a].code].current_total_uses = 1

\* the attempts that returned the denial of the date check on the coupon
DeniedByWindow(code) ==
  {a \in Attempts :
     /\ dto[a].code = code
     /\ pc[a] = "returned" /\ result[a] = Denied(ExpiredOrNotYetValid)}

\* C39: while the time is before valid_from, an attempt on the active
\* time_specific coupon goes no further than the date check (no status
\* update, no usage count, no transaction), returns its denial unless one
\* of rules 1 to 4 denied it first, and the stored status stays active;
\* the status is expired only when the time is past valid_until.
C39_BeforeWindowDeniedUnchanged ==
  \A code \in Codes :
    coupons[code].type = TIME_SPECIFIC =>
      /\ coupons[code].status = EXPIRED => now > coupons[code].valid_until
      /\ now < coupons[code].valid_from =>
           /\ \A a \in Attempts :
                dto[a].code = code =>
                  /\ pc[a] \in {"isOrderAlreadyUsed", "returned", "thrown"}
                  /\ txOutcome[a] = "none"
                  /\ pc[a] = "returned" =>
                       \/ result[a].reason = ExpiredOrNotYetValid
                       \/ result[a].reason \in EarlierRuleReasons
           /\ DeniedByWindow(code) # {} => coupons[code].status = ACTIVE
           /\ coupons[code].status \in {ACTIVE, INACTIVE}

\* C39 witness: before valid_from, an attempt on the active coupon
\* returned the denial of the date check and the coupon is still active
C39_Witness ==
  /\ now < coupons["PROMO-1"].valid_from
  /\ DeniedByWindow("PROMO-1") # {}
  /\ coupons["PROMO-1"].status = ACTIVE
  /\ coupons["PROMO-1"].current_total_uses = 0

====
